---- MODULE Spec2Model ----
(***************************************************************************)
(* Car-price-predict: the cleaning run (src/data/data_cleaning.py) and the *)
(* split run (src/data/data_preparation.py).                               *)
(*                                                                         *)
(* A text is a sequence of one-character strings.  A cell of a DataFrame   *)
(* is a str, NaN or a number; a column carries its dtype (object, int64,   *)
(* float64) as pandas infers it.  A CSV file is a header and, per column,  *)
(* the field texts of its rows.  The library calls the scripts make        *)
(* (pandas read_csv / replace / str.replace / astype / to_csv, sklearn     *)
(* train_test_split, yaml.safe_load) are modelled by what they do on this  *)
(* alphabet, as pandas 2 and scikit-learn 1 behave.  Numbers are whole: no *)
(* raw text carries a '.', so the only fractional text that arises is the  *)
(* ".0" to_csv writes for a float64.                                       *)
(***************************************************************************)
EXTENDS Integers, Sequences, FiniteSets, TLC

VARIABLES inFile, rawFile, outFile, out1, data, data1,
          numerical_features, categorical_features,
          pc, run, ran, log, saved, exitCode

cleanVars == <<inFile, rawFile, outFile, out1, data, data1,
               numerical_features, categorical_features,
               pc, run, ran, log, saved, exitCode>>

VARIABLES prep_input, prep_params, prep_io, prep_data, test_size, random_state,
          train_data, test_data, train_csv, test_csv,
          prep_pc, prep_ran, prep_log, prep_exit

prepVars == <<prep_input, prep_params, prep_io, prep_data, test_size, random_state,
              train_data, test_data, train_csv, test_csv,
              prep_pc, prep_ran, prep_log, prep_exit>>

vars == <<cleanVars, prepVars>>

\* Largest number of rows of a raw dataset of the cleaning run.
MaxRows == 2

(***************************************************************************)
(* Texts and numbers                                                       *)
(***************************************************************************)
Digits == {"0", "1", "2", "3", "4", "5", "6", "7", "8", "9"}

DigitVal(c) ==
  CASE c = "0" -> 0 [] c = "1" -> 1 [] c = "2" -> 2 [] c = "3" -> 3
    [] c = "4" -> 4 [] c = "5" -> 5 [] c = "6" -> 6 [] c = "7" -> 7
    [] c = "8" -> 8 [] c = "9" -> 9

DigitChar(n) ==
  CASE n = 0 -> "0" [] n = 1 -> "1" [] n = 2 -> "2" [] n = 3 -> "3"
    [] n = 4 -> "4" [] n = 5 -> "5" [] n = 6 -> "6" [] n = 7 -> "7"
    [] n = 8 -> "8" [] n = 9 -> "9"

IsDigits(s) == Len(s) > 0 /\ \A i \in 1..Len(s) : s[i] \in Digits

RECURSIVE DigitsVal(_)
DigitsVal(s) ==
  IF s = <<>> THEN 0
  ELSE 10 * DigitsVal(SubSeq(s, 1, Len(s) - 1)) + DigitVal(s[Len(s)])

RECURSIVE NumText(_)
NumText(n) ==
  IF n < 10 THEN <<DigitChar(n)>>
  ELSE Append(NumText(n \div 10), DigitChar(n % 10))

\* float(text) succeeds: digits, or digits followed by ".0".
IsFloatText(s) ==
  \/ IsDigits(s)
  \/ /\ Len(s) >= 3
     /\ s[Len(s) - 1] = "."
     /\ s[Len(s)] = "0"
     /\ IsDigits(SubSeq(s, 1, Len(s) - 2))

FloatVal(s) ==
  IF IsDigits(s) THEN DigitsVal(s) ELSE DigitsVal(SubSeq(s, 1, Len(s) - 2))

RECURSIVE RemoveChar(_, _)
RemoveChar(s, ch) ==
  IF s = <<>> THEN <<>>
  ELSE IF Head(s) = ch THEN RemoveChar(Tail(s), ch)
  ELSE <<Head(s)>> \o RemoveChar(Tail(s), ch)

tNA == <<"n", "a">>
tZero == <<"0">>
tOther == <<"O", "t", "h", "e", "r">>

(***************************************************************************)
(* Cells, columns, DataFrames, files                                       *)
(***************************************************************************)
NaN == [t |-> "nan", s |-> <<>>, v |-> 0]
Str(s) == [t |-> "str", s |-> s, v |-> 0]
Num(n) == [t |-> "num", s |-> <<>>, v |-> n]

Column(dtype, cells) == [dtype |-> dtype, cells |-> cells]

None == [isNone |-> TRUE, columns |-> <<>>, col |-> <<>>]

NoFile == [exists |-> FALSE, columns |-> <<>>, col |-> <<>>]

Range(f) == {f[i] : i \in DOMAIN f}

HasCol(d, name) == name \in Range(d.columns)

SetCol(d, name, column) == [d EXCEPT !.col[name] = column]

DropCol(d, name) ==
  [isNone |-> FALSE,
   columns |-> SelectSeq(d.columns, LAMBDA c : c # name),
   col |-> [c \in (DOMAIN d.col) \ {name} |-> d.col[c]]]

NRows(d) == IF d.columns = <<>> THEN 0 ELSE Len(d.col[d.columns[1]].cells)

(***************************************************************************)
(* pandas, as the cleaning script calls it                                 *)
(***************************************************************************)
\* pd.read_csv's dtype inference for one column of field texts: an empty
\* field is NaN; a column of whole numbers is int64; a column of numbers and
\* empty fields is float64; any other column is object, holding str and NaN.
\* "na" is not among read_csv's default NaN markers and stays a str.
InferColumn(texts) ==
  LET n == Len(texts) IN
  IF n = 0 THEN Column("object", <<>>)
  ELSE IF \A i \in 1..n : IsDigits(texts[i])
    THEN Column("int64", [i \in 1..n |-> Num(DigitsVal(texts[i]))])
  ELSE IF \A i \in 1..n : texts[i] = <<>> \/ IsFloatText(texts[i])
    THEN Column("float64",
                [i \in 1..n |-> IF texts[i] = <<>> THEN NaN
                                ELSE Num(FloatVal(texts[i]))])
  ELSE Column("object",
              [i \in 1..n |-> IF texts[i] = <<>> THEN NaN ELSE Str(texts[i])])

\* Series.to_csv field of one cell: NaN is the empty field, a float64 is
\* written with its ".0", an int64 and a str as they are.
FieldText(dtype, cell) ==
  IF cell.t = "nan" THEN <<>>
  ELSE IF cell.t = "str" THEN cell.s
  ELSE IF dtype = "float64" THEN NumText(cell.v) \o <<".", "0">>
  ELSE NumText(cell.v)

\* DataFrame.to_csv(file_path, index=False)
to_csv(d) ==
  [exists |-> TRUE,
   columns |-> d.columns,
   col |-> [c \in DOMAIN d.col |->
              [i \in 1..Len(d.col[c].cells) |->
                 FieldText(d.col[c].dtype, d.col[c].cells[i])]]]

\* Series.replace(old, new) with a str `old`: a no-op on a numeric column;
\* on an object column every cell equal to `old` becomes `new`, and the
\* result is then soft-converted (an object column left holding only NaN
\* becomes float64).
replace(column, old, new) ==
  IF column.dtype # "object" THEN column
  ELSE LET cells == [i \in 1..Len(column.cells) |->
                       IF column.cells[i] = Str(old) THEN new
                       ELSE column.cells[i]]
       IN IF Len(cells) > 0 /\ \A i \in 1..Len(cells) : cells[i].t = "nan"
          THEN Column("float64", cells)
          ELSE Column("object", cells)

\* The pattern `pat`, compiled as a regular expression, at position i of
\* the text s: ',' matches the comma there; '$' is the end-of-text anchor and
\* matches no character at all.
RegexMatches(pat, s, i) == pat # "$" /\ s[i] = pat

\* re.sub(pat, '', s): the text without the characters the pattern matches.
RECURSIVE RegexSub(_, _, _)
RegexSub(pat, s, i) ==
  IF i > Len(s) THEN <<>>
  ELSE (IF RegexMatches(pat, s, i) THEN <<>> ELSE <<s[i]>>) \o RegexSub(pat, s, i + 1)

\* re.sub with count=1: only the first match is removed.
RECURSIVE RegexSubFirst(_, _, _)
RegexSubFirst(pat, s, i) ==
  IF i > Len(s) THEN <<>>
  ELSE IF RegexMatches(pat, s, i) THEN SubSeq(s, i + 1, Len(s))
  ELSE <<s[i]>> \o RegexSubFirst(pat, s, i + 1)

\* str.replace that removes one occurrence per run instead of all.
str_replace_first(column, pat) ==
  Column(column.dtype,
         [i \in 1..Len(column.cells) |->
            IF column.cells[i].t = "str"
            THEN Str(RegexSubFirst(pat, column.cells[i].s, 1))
            ELSE column.cells[i]])

\* Series.str.replace(pat, '', regex=True): re.sub on every str cell; NaN
\* stays NaN.  (pandas 2 compiles a one-character pattern like any other.)
str_replace(column, pat) ==
  Column(column.dtype,
         [i \in 1..Len(column.cells) |->
            IF column.cells[i].t = "str"
            THEN Str(RegexSub(pat, column.cells[i].s, 1))
            ELSE column.cells[i]])

\* Series.astype(float): [ok, column]; ValueError when a str does not parse.
astype_float(column) ==
  LET n == Len(column.cells)
      parses(cell) == cell.t # "str" \/ IsFloatText(cell.s)
  IN IF \A i \in 1..n : parses(column.cells[i])
     THEN [ok |-> TRUE,
           column |-> Column("float64",
                        [i \in 1..n |->
                           IF column.cells[i].t = "str"
                           THEN Num(FloatVal(column.cells[i].s))
                           ELSE column.cells[i]])]
     ELSE [ok |-> FALSE, column |-> column]

(***************************************************************************)
(* data_cleaning.py                                                        *)
(***************************************************************************)
\* A stage whose except block logs and raises again.
ResultReraise(d, error) == [data |-> d, error |-> error, raised |-> error]

\* What a stage hands back to __main__: the dataset, whether its except
\* block logged an error, and whether an exception left the function.
Result(d, error) == [data |-> d, error |-> error, raised |-> FALSE]

\* read_csv(path): the DataFrame, or None (logged) when the file is missing.
read_csv(file) ==
  IF ~file.exists THEN Result(None, TRUE)
  ELSE Result([isNone |-> FALSE,
               columns |-> file.columns,
               col |-> [c \in DOMAIN file.col |-> InferColumn(file.col[c])]],
              FALSE)

\* Lines 48-51 for one column, each assignment made in place before the next
\* call can raise: [ok, data].
clean_numeric_column(d, c) ==
  LET a == replace(d.col[c], tNA, NaN)
      dA == SetCol(d, c, a)
      b == str_replace(a, ",")
      dB == SetCol(dA, c, b)
      e == str_replace(b, "$")
      dE == SetCol(dB, c, e)
      f == astype_float(e)
  IN IF a.dtype # "object" THEN [ok |-> FALSE, data |-> dA]  \* no .str accessor
     ELSE IF ~f.ok THEN [ok |-> FALSE, data |-> dE]          \* ValueError
     ELSE [ok |-> TRUE, data |-> SetCol(dE, c, f.column)]

data_cleaning_numerical(d) ==
  IF d.isNone THEN Result(d, TRUE)                           \* None.columns
  ELSE
    LET d0 == IF HasCol(d, "Unnamed: 0") THEN DropCol(d, "Unnamed: 0") ELSE d
        dt == astype_float(replace(d0.col["date"], tNA, NaN))
    IN IF ~dt.ok THEN Result(d0, TRUE)
       ELSE LET d1 == SetCol(d0, "date", dt.column)
                p == clean_numeric_column(d1, "price")
            IN IF ~p.ok THEN Result(p.data, TRUE)
               ELSE LET m == clean_numeric_column(p.data, "mileage")
                    IN Result(m.data, ~m.ok)

\* divide_columns(data): [numerical, categorical, error, raised]
divide_columns(d) ==
  IF d.isNone
  THEN [numerical |-> <<>>, categorical |-> <<>>, error |-> TRUE, raised |-> FALSE]
  ELSE [numerical |-> SelectSeq(d.columns, LAMBDA c : d.col[c].dtype # "object"),
        categorical |-> SelectSeq(d.columns, LAMBDA c : d.col[c].dtype = "object"),
        error |-> FALSE, raised |-> FALSE]

\* Categorical cleaning without the transmission rule.
clean_categorical_column_uniform(column, name) == replace(column, tNA, NaN)

\* Lines 66-69 for one categorical column.
clean_categorical_column(column, name) ==
  IF name = "transmission" THEN replace(column, tZero, Str(tOther))
  ELSE replace(column, tNA, NaN)

RECURSIVE clean_categorical_loop(_, _)
clean_categorical_loop(d, features) ==
  IF features = <<>> THEN d
  ELSE LET c == Head(features)
       IN clean_categorical_loop(
            SetCol(d, c, clean_categorical_column(d.col[c], c)), Tail(features))

data_clean_categorical(d, features) ==
  IF features = <<>> THEN Result(d, FALSE)
  ELSE IF d.isNone THEN Result(d, TRUE)
  ELSE Result(clean_categorical_loop(d, features), FALSE)

\* save_file(path, data): [file, error, raised]; `io_ok` is whether mkdir and
\* the write succeed.  None has no to_csv.
save_file(old, d, io_ok) ==
  IF d.isNone \/ ~io_ok
  THEN [file |-> old, error |-> TRUE, raised |-> FALSE]
  ELSE [file |-> to_csv(d), error |-> FALSE, raised |-> FALSE]

(***************************************************************************)
(* Raw datasets of the cleaning run                                        *)
(***************************************************************************)
RawRow(price, mileage, date, transmission, fuel) ==
  [price |-> price, mileage |-> mileage, date |-> date,
   transmission |-> transmission, fuel |-> fuel]

RawRows ==
  { RawRow(<<"$", "1", ",", "2", ",", "3">>, <<"4", ",", "5">>, <<"7">>, <<"A">>, <<"G">>),
    RawRow(tNA, tNA, tNA, <<"0">>, tNA),
    RawRow(<<"1", ",", "2">>, <<"4", ",", "5">>, <<"7">>, <<"0">>, <<"0">>),
    RawRow(<<"x">>, <<"4", ",", "5">>, <<"7">>, <<"A">>, <<"G">>),
    RawRow(<<"$", "1", ",", "2", ",", "3">>, <<"$", "4">>, tNA, <<"0">>, <<"0">>),
    RawRow(<<"1", "2">>, <<"4", "5">>, <<"7">>, <<"0">>, <<"0">>),
    RawRow(<<"1", ",", "2">>, tNA, <<"7">>, <<"A">>, tNA) }

DataColumns == <<"price", "mileage", "date", "transmission", "fuel">>

\* The raw file of `rows`, with or without the exported index column.
RawFileOf(rows, unnamed) ==
  LET n == Len(rows)
      columns == IF unnamed THEN <<"Unnamed: 0">> \o DataColumns ELSE DataColumns
  IN [exists |-> TRUE,
      columns |-> columns,
      col |-> [c \in Range(columns) |->
                 [i \in 1..n |-> IF c = "Unnamed: 0" THEN NumText(i - 1)
                                 ELSE rows[i][c]]]]

RawFiles ==
  {NoFile} \cup
  { RawFileOf(rows, unnamed) :
      rows \in UNION {[1..n -> RawRows] : n \in 0..MaxRows}, unnamed \in BOOLEAN }

(***************************************************************************)
(* data_cleaning.py, __main__                                              *)
(***************************************************************************)
\* The split script is not running.
PrepIdle ==
  /\ prep_input = [kind |-> "missing", rows |-> <<>>]
  /\ prep_params = [kind |-> "missing", section |-> "absent",
                    test_size |-> [k |-> "absent", num |-> 0, den |-> 1],
                    random_state |-> [k |-> "absent", v |-> 0]]
  /\ prep_io = [train |-> "none", test |-> "none"]
  /\ prep_data = [isNone |-> TRUE, rows |-> <<>>]
  /\ test_size = [k |-> "absent", num |-> 0, den |-> 1]
  /\ random_state = -1
  /\ train_data = <<>> /\ test_data = <<>>
  /\ train_csv = [exists |-> FALSE, rows |-> <<>>]
  /\ test_csv = [exists |-> FALSE, rows |-> <<>>]
  /\ prep_pc = "idle" /\ prep_ran = {} /\ prep_log = {} /\ prep_exit = -1

InitClean ==
  /\ rawFile \in RawFiles
  /\ inFile = rawFile
  /\ outFile = NoFile
  /\ out1 = NoFile
  /\ data = None
  /\ data1 = None
  /\ numerical_features = <<>>
  /\ categorical_features = <<>>
  /\ pc = "read"
  /\ run = 1
  /\ ran = {}
  /\ log = {}
  /\ saved = FALSE
  /\ exitCode = -1
  /\ PrepIdle

\* A stage has returned to __main__: the next stage, or, when an exception
\* left the stage, the except block of line 129, which logs and falls off the
\* end of the script.
Logged(stage, error, raised) ==
  log \cup (IF error THEN {stage} ELSE {}) \cup (IF raised THEN {"critical"} ELSE {})

MainRead ==
  /\ pc = "read"
  /\ LET r == read_csv(inFile) IN
       /\ data' = r.data
       /\ log' = Logged("read_csv", r.error, r.raised)
       /\ pc' = IF r.raised THEN "done" ELSE "numerical"
       /\ exitCode' = IF r.raised THEN 0 ELSE exitCode
  /\ ran' = ran \cup {"read_csv"}
  /\ UNCHANGED <<inFile, rawFile, outFile, out1, data1,
                 numerical_features, categorical_features, run, saved>>
  /\ UNCHANGED prepVars

MainNumerical ==
  /\ pc = "numerical"
  /\ LET r == data_cleaning_numerical(data) IN
       /\ data' = r.data
       /\ log' = Logged("data_cleaning_numerical", r.error, r.raised)
       /\ pc' = IF r.raised THEN "done" ELSE "divide"
       /\ exitCode' = IF r.raised THEN 0 ELSE exitCode
  /\ ran' = ran \cup {"data_cleaning_numerical"}
  /\ UNCHANGED <<inFile, rawFile, outFile, out1, data1,
                 numerical_features, categorical_features, run, saved>>
  /\ UNCHANGED prepVars

MainDivide ==
  /\ pc = "divide"
  /\ LET r == divide_columns(data) IN
       /\ numerical_features' = r.numerical
       /\ categorical_features' = r.categorical
       /\ log' = Logged("divide_columns", r.error, r.raised)
       /\ pc' = IF r.raised THEN "done" ELSE "categorical"
       /\ exitCode' = IF r.raised THEN 0 ELSE exitCode
  /\ ran' = ran \cup {"divide_columns"}
  /\ UNCHANGED <<inFile, rawFile, outFile, out1, data, data1, run, saved>>
  /\ UNCHANGED prepVars

MainCategorical ==
  /\ pc = "categorical"
  /\ LET r == data_clean_categorical(data, categorical_features) IN
       /\ data' = r.data
       /\ log' = Logged("data_clean_categorical", r.error, r.raised)
       /\ pc' = IF r.raised THEN "done" ELSE "save"
       /\ exitCode' = IF r.raised THEN 0 ELSE exitCode
  /\ ran' = ran \cup {"data_clean_categorical"}
  /\ UNCHANGED <<inFile, rawFile, outFile, out1, data1,
                 numerical_features, categorical_features, run, saved>>
  /\ UNCHANGED prepVars

MainSave ==
  /\ pc = "save"
  /\ \E io_ok \in BOOLEAN :
       LET r == save_file(outFile, data, io_ok) IN
         /\ outFile' = r.file
         /\ saved' = ~r.error
         /\ log' = Logged("save_file", r.error, r.raised)
  /\ pc' = "done"
  /\ exitCode' = 0
  /\ ran' = ran \cup {"save_file"}
  /\ UNCHANGED <<inFile, rawFile, out1, data, data1,
                 numerical_features, categorical_features, run>>
  /\ UNCHANGED prepVars

\* The script is run once more, its input path now holding the file the
\* first run wrote.
MainRerun ==
  /\ pc = "done" /\ run = 1 /\ saved
  /\ inFile' = outFile
  /\ out1' = outFile
  /\ data1' = data
  /\ data' = None
  /\ numerical_features' = <<>>
  /\ categorical_features' = <<>>
  /\ pc' = "read"
  /\ run' = 2
  /\ ran' = {}
  /\ log' = {}
  /\ saved' = FALSE
  /\ exitCode' = -1
  /\ UNCHANGED <<rawFile, outFile>>
  /\ UNCHANGED prepVars

NextClean ==
  \/ MainRead
  \/ MainNumerical
  \/ MainDivide
  \/ MainCategorical
  \/ MainSave
  \/ MainRerun

SpecClean == InitClean /\ [][NextClean]_vars

(***************************************************************************)
(* data_preparation.py                                                     *)
(***************************************************************************)
\* Largest number of rows of a dataset of the split run.
MaxN == 3

RowVals == {"a", "b"}

DefaultTestSize == [k |-> "float", num |-> 2, den |-> 10]
DefaultRandomState == 42

FloatSize(num, den) == [k |-> "float", num |-> num, den |-> den]
IntSize(n) == [k |-> "int", num |-> n, den |-> 1]
NoneSize == [k |-> "none", num |-> 0, den |-> 1]
Absent == [k |-> "absent", num |-> 0, den |-> 1]

\* Values params.yaml gives test_size: 0.2, 0.5, 0.0, 1.0, 1.5 (floats),
\* 0, 1, 2 (YAML integers), null, or no key at all.
TestSizes ==
  { FloatSize(2, 10), FloatSize(5, 10), FloatSize(0, 10), FloatSize(10, 10), FloatSize(15, 10),
    IntSize(0), IntSize(1), IntSize(2), NoneSize, Absent }

RandomStates == { [k |-> "absent", v |-> 0], [k |-> "int", v |-> 7] }

ParamsFile(kind, section, ts, rs) ==
  [kind |-> kind, section |-> section, test_size |-> ts, random_state |-> rs]

\* params.yaml: missing; not YAML; an empty document (safe_load gives None);
\* a mapping without Data_Preparation; a mapping whose Data_Preparation is
\* empty (null); a mapping whose Data_Preparation is a mapping.
ParamsFiles ==
  { ParamsFile(kind, "absent", Absent, [k |-> "absent", v |-> 0]) :
      kind \in {"missing", "unparseable", "null", "map"} }
  \cup { ParamsFile("map", "null", Absent, [k |-> "absent", v |-> 0]) }
  \cup { ParamsFile("map", "map", ts, rs) : ts \in TestSizes, rs \in RandomStates }

InputFiles ==
  { [kind |-> kind, rows |-> <<>>] : kind \in {"missing", "unreadable"} }
  \cup { [kind |-> "ok", rows |-> rows] :
           rows \in UNION {[1..n -> RowVals] : n \in 0..MaxN} }

\* load_data(path): [data, error]; None when the file is missing or
\* pd.read_csv raises.  A row keeps its index label.
load_data(file) ==
  IF file.kind # "ok"
  THEN [data |-> [isNone |-> TRUE, rows |-> <<>>], error |-> TRUE]
  ELSE [data |-> [isNone |-> FALSE,
                  rows |-> [i \in 1..Len(file.rows) |->
                              [idx |-> i - 1, val |-> file.rows[i]]]],
        error |-> FALSE]

\* read_params(file_path): [test_size, random_state, error, exit].  Every
\* except block logs and calls sys.exit(1); SystemExit is not an Exception,
\* so the exit of line 70 passes the handlers of lines 81-86.
ParamsExit == [test_size |-> Absent, random_state |-> -1, error |-> TRUE, exit |-> TRUE]

read_params(file) ==
  IF file.kind = "missing" THEN ParamsExit                   \* line 70
  ELSE IF file.kind = "unparseable" THEN ParamsExit          \* yaml.YAMLError
  ELSE IF file.kind = "null" THEN ParamsExit                 \* None.get
  ELSE IF file.section = "null" THEN ParamsExit              \* None.get
  ELSE
    [test_size |-> IF file.section = "absent" \/ file.test_size.k = "absent"
                   THEN DefaultTestSize ELSE file.test_size,
     random_state |-> IF file.section = "absent" \/ file.random_state.k = "absent"
                      THEN DefaultRandomState ELSE file.random_state.v,
     error |-> FALSE, exit |-> FALSE]

Ceil(num, den) == (num + den - 1) \div den

\* The test count rounded down instead of up.
n_test_floor(n, ts) ==
  IF ts.k = "int" THEN ts.num
  ELSE IF ts.k = "none" THEN n \div 4
  ELSE (ts.num * n) \div ts.den

\* The number of test rows: ceil(test_size * n) for a float, the value itself
\* for an integer, ceil(0.25 * n) for None.
n_test_of(n, ts) ==
  IF ts.k = "int" THEN ts.num
  ELSE IF ts.k = "none" THEN Ceil(n, 4)
  ELSE Ceil(ts.num * n, ts.den)

\* sklearn's _validate_shuffle_split with train_size=None: [ok, n_train, n_test].
\* A float must lie strictly between 0 and 1; an integer is an absolute number
\* of test rows and must lie in 1..n-1; an empty train set is an error.
validate_shuffle_split(n, ts) ==
  LET n_test == n_test_of(n, ts)
      n_train == n - n_test
      bad == \/ ts.k = "int" /\ (ts.num >= n \/ ts.num <= 0)
             \/ ts.k = "float" /\ (ts.num <= 0 \/ ts.num >= ts.den)
  IN [ok |-> ~bad /\ n_train # 0, n_train |-> n_train, n_test |-> n_test]

Perms(n) == {p \in [1..n -> 1..n] : \A i, j \in 1..n : i # j => p[i] # p[j]}

\* A split whose train slice starts again at the first permuted row.
split_data_overlap(d, ts, rs, perm) ==
  LET n == Len(d.rows)
      v == validate_shuffle_split(n, ts)
  IN IF ~v.ok
     THEN [ok |-> FALSE, train |-> <<>>, test |-> <<>>, error |-> TRUE, exit |-> TRUE]
     ELSE [ok |-> TRUE,
           test |-> [i \in 1..v.n_test |-> d.rows[perm[i]]],
           train |-> [i \in 1..v.n_train |-> d.rows[perm[i]]],
           error |-> FALSE, exit |-> FALSE]

\* split_data(data, test_size, random_state): [ok, train, test, error, exit].
\* `perm` is rng.permutation(n) for the seed: the first n_test permuted rows
\* are the test set, the next n_train the train set.
split_data(d, ts, rs, perm) ==
  LET n == Len(d.rows)
      v == validate_shuffle_split(n, ts)
  IN IF ~v.ok
     THEN [ok |-> FALSE, train |-> <<>>, test |-> <<>>, error |-> TRUE, exit |-> TRUE]
     ELSE [ok |-> TRUE,
           test |-> [i \in 1..v.n_test |-> d.rows[perm[i]]],
           train |-> [i \in 1..v.n_train |-> d.rows[perm[v.n_test + i]]],
           error |-> FALSE, exit |-> FALSE]

\* A save_file that logs its error and returns, as the cleaning script's does.
prep_save_file_soft(old, rows, io_ok) ==
  IF ~io_ok THEN [file |-> old, error |-> TRUE, exit |-> FALSE]
  ELSE [file |-> [exists |-> TRUE, rows |-> [i \in 1..Len(rows) |-> rows[i].val]],
        error |-> FALSE, exit |-> FALSE]

\* save_file(path, data, file_name): [file, error, exit]
prep_save_file(old, rows, io_ok) ==
  IF ~io_ok THEN [file |-> old, error |-> TRUE, exit |-> TRUE]
  ELSE [file |-> [exists |-> TRUE, rows |-> [i \in 1..Len(rows) |-> rows[i].val]],
        error |-> FALSE, exit |-> FALSE]

(***************************************************************************)
(* data_preparation.py, __main__                                           *)
(***************************************************************************)
\* The cleaning script is not running.
CleanIdle ==
  /\ inFile = NoFile /\ rawFile = NoFile /\ outFile = NoFile
  /\ out1 = NoFile /\ data = None /\ data1 = None
  /\ numerical_features = <<>> /\ categorical_features = <<>>
  /\ pc = "idle" /\ run = 0 /\ ran = {} /\ log = {} /\ saved = FALSE
  /\ exitCode = -1

InitPrep ==
  /\ prep_input \in InputFiles
  /\ prep_params \in ParamsFiles
  /\ prep_io = [train |-> "none", test |-> "none"]
  /\ prep_data = [isNone |-> TRUE, rows |-> <<>>]
  /\ test_size = Absent
  /\ random_state = -1
  /\ train_data = <<>>
  /\ test_data = <<>>
  /\ train_csv = [exists |-> FALSE, rows |-> <<>>]
  /\ test_csv = [exists |-> FALSE, rows |-> <<>>]
  /\ prep_pc = "load"
  /\ prep_ran = {}
  /\ prep_log = {}
  /\ prep_exit = -1
  /\ CleanIdle

PrepLogged(stage, error) == prep_log \cup (IF error THEN {stage} ELSE {})

\* Lines 121-124: a None dataset is logged and ends the script.
PrepLoad ==
  /\ prep_pc = "load"
  /\ LET r == load_data(prep_input) IN
       /\ prep_data' = r.data
       /\ prep_log' = PrepLogged("load_data", r.error)
       /\ prep_pc' = IF r.data.isNone THEN "exit" ELSE "params"
       /\ prep_exit' = IF r.data.isNone THEN 1 ELSE prep_exit
  /\ prep_ran' = prep_ran \cup {"load_data"}
  /\ UNCHANGED <<prep_input, prep_params, prep_io, test_size, random_state,
                 train_data, test_data, train_csv, test_csv>>
  /\ UNCHANGED cleanVars

PrepParams ==
  /\ prep_pc = "params"
  /\ LET r == read_params(prep_params) IN
       /\ test_size' = r.test_size
       /\ random_state' = r.random_state
       /\ prep_log' = PrepLogged("read_params", r.error)
       /\ prep_pc' = IF r.exit THEN "exit" ELSE "split"
       /\ prep_exit' = IF r.exit THEN 1 ELSE prep_exit
  /\ prep_ran' = prep_ran \cup {"read_params"}
  /\ UNCHANGED <<prep_input, prep_params, prep_io, prep_data,
                 train_data, test_data, train_csv, test_csv>>
  /\ UNCHANGED cleanVars

PrepSplit ==
  /\ prep_pc = "split"
  /\ \E perm \in Perms(Len(prep_data.rows)) :
       LET r == split_data(prep_data, test_size, random_state, perm) IN
         /\ train_data' = r.train
         /\ test_data' = r.test
         /\ prep_log' = PrepLogged("split_data", r.error)
         /\ prep_pc' = IF r.exit THEN "exit" ELSE "save_train"
         /\ prep_exit' = IF r.exit THEN 1 ELSE prep_exit
  /\ prep_ran' = prep_ran \cup {"split_data"}
  /\ UNCHANGED <<prep_input, prep_params, prep_io, prep_data, test_size,
                 random_state, train_csv, test_csv>>
  /\ UNCHANGED cleanVars

PrepSaveTrain ==
  /\ prep_pc = "save_train"
  /\ \E io_ok \in BOOLEAN :
       LET r == prep_save_file(train_csv, train_data, io_ok) IN
         /\ train_csv' = r.file
         /\ prep_io' = [prep_io EXCEPT !.train = IF io_ok THEN "ok" ELSE "fail"]
         /\ prep_log' = PrepLogged("save_train", r.error)
         /\ prep_pc' = IF r.exit THEN "exit" ELSE "save_test"
         /\ prep_exit' = IF r.exit THEN 1 ELSE prep_exit
  /\ prep_ran' = prep_ran \cup {"save_train"}
  /\ UNCHANGED <<prep_input, prep_params, prep_data, test_size, random_state,
                 train_data, test_data, test_csv>>
  /\ UNCHANGED cleanVars

PrepSaveTest ==
  /\ prep_pc = "save_test"
  /\ \E io_ok \in BOOLEAN :
       LET r == prep_save_file(test_csv, test_data, io_ok) IN
         /\ test_csv' = r.file
         /\ prep_io' = [prep_io EXCEPT !.test = IF io_ok THEN "ok" ELSE "fail"]
         /\ prep_log' = PrepLogged("save_test", r.error)
         /\ prep_pc' = IF r.exit THEN "exit" ELSE "done"
         /\ prep_exit' = IF r.exit THEN 1 ELSE 0
  /\ prep_ran' = prep_ran \cup {"save_test"}
  /\ UNCHANGED <<prep_input, prep_params, prep_data, test_size, random_state,
                 train_data, test_data, train_csv>>
  /\ UNCHANGED cleanVars

NextPrep ==
  \/ PrepLoad
  \/ PrepParams
  \/ PrepSplit
  \/ PrepSaveTrain
  \/ PrepSaveTest

SpecPrep == InitPrep /\ [][NextPrep]_vars

(***************************************************************************)
(* Properties of the cleaning run (SpecClean)                              *)
(***************************************************************************)
\* The DataFrame read_csv gave the current run.
Loaded == read_csv(inFile).data

\* data_cleaning_numerical has just returned a loaded dataset.
AfterNumerical == pc = "divide" /\ ~data.isNone

\* The cleaning stage (numerical, divide_columns, categorical) has run on a
\* loaded dataset.
Cleaned == pc \in {"save", "done"} /\ ~data.isNone

StripCurrency(t) == RemoveChar(RemoveChar(t, ","), "$")

\* Every raw price and mileage text is the sentinel or a decorated number.
WellFormed(file) ==
  \A c \in {"price", "mileage"} : \A i \in 1..Len(file.col[c]) :
    file.col[c][i] = tNA \/ IsFloatText(StripCurrency(file.col[c][i]))

\* Some raw price is a number and not the sentinel.
PriceHasNumber(file) ==
  \E i \in 1..Len(file.col["price"]) : file.col["price"][i] # tNA

\* C1: data_cleaning_numerical maps every raw "na" of price and mileage to
\* missing, and every currency-decorated text to the float left after all
\* ',' and '$' are removed ("$12,345" becomes 12345.0).  Stated for the
\* datasets whose price and mileage texts are all sentinels or decorated
\* numbers and whose price column holds a number.
C1_CurrencyParsing ==
  (AfterNumerical /\ run = 1 /\ WellFormed(rawFile) /\ PriceHasNumber(rawFile)) =>
    \A c \in {"price", "mileage"} : \A i \in 1..Len(rawFile.col[c]) :
      LET t == rawFile.col[c][i]
          cell == data.col[c].cells[i]
      IN IF t = tNA THEN cell = NaN
         ELSE cell = Num(FloatVal(StripCurrency(t)))

\* C2: after the cleaning stage, price, mileage and date hold only numbers
\* or missing: no cell is a text ("na", or a text still carrying ',' or
\* '$').  Stated for the same datasets as C1.
C2_NumericColumnsFloat ==
  (Cleaned /\ run = 1 /\ WellFormed(rawFile) /\ PriceHasNumber(rawFile)) =>
    \A c \in {"price", "mileage", "date"} :
      \A i \in 1..Len(data.col[c].cells) : data.col[c].cells[i].t # "str"

\* C3: after the cleaning stage no transmission cell is "0" (each became
\* "Other"), no other column holds "na", and a "0" of a categorical column
\* other than transmission is still "0".
C3_SentinelAsymmetry ==
  Cleaned =>
    /\ \A i \in 1..NRows(data) :
         /\ data.col["transmission"].cells[i] # Str(tZero)
         /\ Loaded.col["transmission"].cells[i] = Str(tZero)
              => data.col["transmission"].cells[i] = Str(tOther)
    /\ \A c \in Range(data.columns) \ {"transmission"} : \A i \in 1..NRows(data) :
         /\ data.col[c].cells[i] # Str(tNA)
         /\ Loaded.col[c].cells[i] = Str(tZero) => data.col[c].cells[i] = Str(tZero)

\* A transmission "0" became "Other", a fuel "na" became missing and a fuel
\* "0" was kept.
C3_Witness ==
  /\ Cleaned /\ run = 1
  /\ \E i \in 1..NRows(data) :
       /\ Loaded.col["transmission"].cells[i] = Str(tZero)
       /\ data.col["transmission"].cells[i] = Str(tOther)
  /\ \E i \in 1..NRows(data) :
       /\ Loaded.col["fuel"].cells[i] = Str(tNA)
       /\ data.col["fuel"].cells[i] = NaN
  /\ \E i \in 1..NRows(data) :
       /\ Loaded.col["fuel"].cells[i] = Str(tZero)
       /\ data.col["fuel"].cells[i] = Str(tZero)

\* The second run, on the first run's output, has written its own output.
SecondRunSaved == run = 2 /\ pc = "done" /\ saved

\* The numeric columns of d were all converted to float64.
NumericClean(d) ==
  \A c \in {"price", "mileage", "date"} : d.col[c].dtype = "float64"

\* C4: a second run of the cleaning pipeline on the output of a first run
\* writes a file identical to that output (stated for the first runs that
\* converted price, mileage and date, where no stage of the first run left
\* its work undone).
C4_Idempotent == (SecondRunSaved /\ NumericClean(data1)) => outFile = out1

\* C4, amended: the second run writes an identical file whenever read_csv
\* loads the first output with the values and dtypes the first run held in
\* memory when it saved.
C4_IdempotentSameTypes ==
  (SecondRunSaved /\ read_csv(out1).data = data1) => outFile = out1

\* A first run that changed its raw two-row input is reloaded with the same
\* dtypes and rerun.
C4_Witness ==
  /\ SecondRunSaved
  /\ read_csv(out1).data = data1
  /\ NRows(data1) = 2
  /\ \E c \in Range(out1.columns) : out1.col[c] # rawFile.col[c]

AllStages ==
  {"read_csv", "data_cleaning_numerical", "divide_columns",
   "data_clean_categorical", "save_file"}

\* Some raw price is neither the sentinel nor a decorated number.
PriceUnparseable(file) ==
  /\ file.exists
  /\ \E i \in 1..Len(file.col["price"]) :
       /\ file.col["price"][i] # tNA
       /\ ~IsFloatText(StripCurrency(file.col["price"][i]))

\* The written file holds every row of every input column but the index.
OutputComplete ==
  /\ outFile.exists
  /\ outFile.columns = SelectSeq(inFile.columns, LAMBDA c : c # "Unnamed: 0")
  /\ \A c \in Range(outFile.columns) : Len(outFile.col[c]) = Len(inFile.col[c])
  /\ \A c \in Range(outFile.columns) \ {"price", "mileage", "date"} :
       \A i \in 1..Len(outFile.col[c]) :
         LET column == clean_categorical_column(Loaded.col[c], c)
         IN outFile.col[c][i] = FieldText(column.dtype, column.cells[i])

\* C9: the cleaning run never aborts.  The exit status is never nonzero; a
\* finished run ran all five stages and took no exception in __main__; a
\* missing input and an unparseable price are logged by the stage that met
\* them; with an unparseable price a successful save still writes every row
\* and every other column.
C9_NeverAborts ==
  /\ exitCode \in {-1, 0}
  /\ pc = "done" =>
       /\ exitCode = 0
       /\ ran = AllStages
       /\ "critical" \notin log
       /\ ~inFile.exists =>
            {"read_csv", "data_cleaning_numerical", "divide_columns", "save_file"} \subseteq log
       /\ PriceUnparseable(inFile) =>
            /\ "data_cleaning_numerical" \in log
            /\ saved => OutputComplete

\* A run whose price column has an unparseable value finished and saved.
C9_Witness ==
  /\ pc = "done" /\ run = 1 /\ saved /\ exitCode = 0
  /\ PriceUnparseable(inFile)
  /\ \E i \in 1..Len(inFile.col["price"]) : inFile.col["price"][i] = <<"x">>
  /\ Len(outFile.col["price"]) = 2
  /\ "data_cleaning_numerical" \in log

(***************************************************************************)
(* Properties of the split run (SpecPrep)                                  *)
(***************************************************************************)
\* split_data has returned a train/test pair.
SplitReturned == "split_data" \in prep_ran /\ "split_data" \notin prep_log

Count(seq, x) == Cardinality({i \in 1..Len(seq) : seq[i] = x})

\* C5: train and test together hold exactly the rows of D, and no row is in
\* both.
C5_Partition ==
  SplitReturned =>
    /\ Range(train_data) \cup Range(test_data) = Range(prep_data.rows)
    /\ Range(train_data) \cap Range(test_data) = {}
    /\ \A r \in Range(prep_data.rows) :
         Count(train_data, r) + Count(test_data, r) = 1
    /\ \A v \in RowVals :
         Count([i \in 1..Len(train_data) |-> train_data[i].val], v)
           + Count([i \in 1..Len(test_data) |-> test_data[i].val], v)
         = Count(prep_input.rows, v)

\* A three-row dataset with a repeated row value was split.
C5_Witness ==
  /\ SplitReturned
  /\ Len(prep_data.rows) = 3
  /\ prep_input.rows[1] = prep_input.rows[2]
  /\ Len(test_data) >= 1
  /\ Len(train_data) >= 1

\* round(num / den), halves up
Round(num, den) == (2 * num + den) \div (2 * den)

FractionValid(ts) == ts.k = "float" /\ 0 < ts.num /\ ts.num < ts.den

\* C6: for a testFraction in (0, 1), test holds round(testFraction * n) rows
\* and train the remaining rows.
C6_RoundSizing ==
  (SplitReturned /\ FractionValid(test_size)) =>
    LET n == Len(prep_data.rows) IN
      /\ Len(test_data) = Round(test_size.num * n, test_size.den)
      /\ Len(train_data) = n - Round(test_size.num * n, test_size.den)

\* C6, amended: for a testFraction in (0, 1), whenever split_data returns,
\* test holds ceil(testFraction * n) rows and train the remaining rows, and
\* split_data fails exactly when that leaves train empty; 100 rows at 0.2
\* give 20 test rows and 80 train rows.
C6_CeilSizing ==
  /\ (SplitReturned /\ FractionValid(test_size)) =>
       LET n == Len(prep_data.rows) IN
         /\ Len(test_data) = Ceil(test_size.num * n, test_size.den)
         /\ Len(train_data) = n - Ceil(test_size.num * n, test_size.den)
         /\ Len(train_data) > 0
  /\ ("split_data" \in prep_log /\ FractionValid(test_size)) =>
       LET n == Len(prep_data.rows) IN n - Ceil(test_size.num * n, test_size.den) = 0
  /\ "split_data" \in prep_ran =>
       validate_shuffle_split(100, DefaultTestSize)
         = [ok |-> TRUE, n_train |-> 80, n_test |-> 20]

\* A split whose test count is the ceiling and not the rounding.
C6_Witness ==
  /\ SplitReturned /\ FractionValid(test_size)
  /\ Len(test_data) = 1
  /\ Round(test_size.num * Len(prep_data.rows), test_size.den) = 0

PrepOrder == <<"load_data", "read_params", "split_data", "save_train", "save_test">>

Later(stage) ==
  {PrepOrder[j] : j \in {j \in 1..Len(PrepOrder) :
                           \E i \in 1..Len(PrepOrder) : PrepOrder[i] = stage /\ i < j}}

\* The error of `stage` was logged and ended the process with status 1
\* before any later stage ran.
Fatal(stage) ==
  /\ prep_pc = "exit"
  /\ prep_exit = 1
  /\ stage \in prep_log
  /\ prep_ran \cap Later(stage) = {}

\* C7: in the split run every error of a stage (input missing or unreadable,
\* configuration missing or unparseable, split failure, save failure for
\* train or test) is logged, ends the process with a nonzero status, and no
\* later stage runs.
C7_ErrorsFatal ==
  /\ (prep_input.kind # "ok" /\ "load_data" \in prep_ran) => Fatal("load_data")
  /\ (prep_params.kind \in {"missing", "unparseable"} /\ "read_params" \in prep_ran)
       => Fatal("read_params")
  /\ ("split_data" \in prep_ran
        /\ ~validate_shuffle_split(Len(prep_data.rows), test_size).ok)
       => Fatal("split_data")
  /\ prep_io.train = "fail" => Fatal("save_train")
  /\ prep_io.test = "fail" => Fatal("save_test")
  /\ prep_log # {} => (prep_pc = "exit" /\ prep_exit = 1)
  /\ prep_exit \in {-1, 0, 1}
  /\ prep_exit = 0 => (prep_pc = "done" /\ prep_log = {})

\* Saving train.csv failed after a successful split.
C7_Witness ==
  /\ prep_io.train = "fail"
  /\ prep_pc = "exit"
  /\ prep_exit = 1
  /\ Len(train_data) >= 1
  /\ "save_test" \notin prep_ran

\* The configured test_size is a number that is not strictly between 0 and 1.
OutsideUnit(ts) == ts.k \in {"float", "int"} /\ (ts.num <= 0 \/ ts.num >= ts.den)

\* C8: for a test_size outside (0, 1), and for an empty dataset, split_data
\* logs an error and ends the run; no train.csv or test.csv is written.
C8_RejectsInvalidFraction ==
  ("split_data" \in prep_ran
     /\ (OutsideUnit(test_size) \/ Len(prep_data.rows) = 0)) =>
    /\ Fatal("split_data")
    /\ ~train_csv.exists
    /\ ~test_csv.exists

\* What read_params is to return for a configuration that parses.
ExpectedTestSize(file) ==
  IF file.section = "map" /\ file.test_size.k # "absent" THEN file.test_size
  ELSE DefaultTestSize

ExpectedRandomState(file) ==
  IF file.section = "map" /\ file.random_state.k # "absent" THEN file.random_state.v
  ELSE DefaultRandomState

\* C10: when the configuration exists and parses, read_params returns the
\* values given and 0.2 / 42 for what is left out, and the run goes on.
C10_DefaultsForOmitted ==
  (prep_params.kind \in {"null", "map"} /\ "read_params" \in prep_ran) =>
    /\ "read_params" \notin prep_log
    /\ test_size = ExpectedTestSize(prep_params)
    /\ random_state = ExpectedRandomState(prep_params)

====
